---- MODULE Spec2Model ----
(***************************************************************************)
(* Model of app.py, the Streamlit dashboard "Retail Demand Forecasting &   *)
(* Inventory Optimizer".  The script is re-executed from top to bottom on  *)
(* every user interaction; one action of the model is one interaction      *)
(* together with the complete script run it triggers.                      *)
(*                                                                         *)
(* Numbers.  Python floats are modelled as fixed-point integers counted in *)
(* hundredths (SCALE): 1.65 is 165, 5.0 is 500.  A float product is        *)
(* FMul (multiply, then round to the grid), sqrt is the integer square     *)
(* root on the grid.  Integers stay inside 32 bits for the bounds below.   *)
(***************************************************************************)
EXTENDS Integers, Sequences, FiniteSets, TLC

VARIABLES
    disk,               \* the two csv files beside app.py
    cache,              \* st.cache_data entry of load_data
    started,            \* FALSE until the script has run once
    DATA_LOADED,
    forecasts,
    policy,
    selected_store,
    selected_product,
    service_level,
    lead_time_days,
    holding_cost,
    stockout_cost,
    sku_df,
    Z,
    mu_d,
    sigma_d,
    safety_stock,
    reorder_point,
    expected_hold,
    expected_sout,
    total_cost,
    rows,
    policy_live,
    display_df,
    widgets,            \* Streamlit's widget store: label -> value, rendered widgets only
    assigned,           \* the script names bound by the last run
    shown               \* the st.* elements rendered by the last run

vars == <<disk, cache, started, DATA_LOADED, forecasts, policy, selected_store,
          selected_product, service_level, lead_time_days, holding_cost,
          stockout_cost, sku_df, Z, mu_d, sigma_d, safety_stock,
          reorder_point, expected_hold, expected_sout, total_cost, rows,
          policy_live, display_df, widgets, assigned, shown>>

----------------------------------------------------------------------------
(* Bounds of the model *)

\* longest forecast table explored
MaxRows == 3
\* longest policy table explored
MaxPolicyRows == 2
\* Spec explores the slider positions 1..LeadLow besides the default and the maximum
LeadLow == 1

----------------------------------------------------------------------------
(* Fixed-point arithmetic *)

\* two decimal digits
SCALE == 10 * 10

\* a * b of two grid values, rounded down to the grid
FMul(a, b) == (a * b) \div SCALE

RECURSIVE Bisect(_, _, _)
Bisect(n, lo, hi) ==
    IF lo >= hi THEN lo
    ELSE LET mid == (lo + hi + 1) \div 2
         IN  IF mid * mid <= n THEN Bisect(n, mid, hi) ELSE Bisect(n, lo, mid - 1)

\* largest r with r * r <= n
ISqrt(n) == Bisect(n, 0, 46340)

\* np.sqrt of a grid value, on the grid
FSqrt(x) == ISqrt(x * SCALE)

\* Python round(): to the nearest integer, halves to the even one
Round(x) ==
    LET q == x \div SCALE
        r == x % SCALE
    IN  IF 2 * r < SCALE THEN q
        ELSE IF 2 * r > SCALE THEN q + 1
        ELSE IF q % 2 = 0 THEN q ELSE q + 1

RECURSIVE SumSeq(_)
SumSeq(s) == IF s = <<>> THEN 0 ELSE Head(s) + SumSeq(Tail(s))

\* pandas Series.mean()
Mean(xs) == SumSeq(xs) \div Len(xs)

\* pandas Series.std(): the sample standard deviation (ddof = 1)
Std(xs) ==
    LET m  == Mean(xs)
        sq == [i \in 1..Len(xs) |-> FMul(xs[i] - m, xs[i] - m)]
    IN  FSqrt(SumSeq(sq) \div (Len(xs) - 1))

----------------------------------------------------------------------------
(* Tables *)

RECURSIVE FilterSku(_, _, _)
\* forecasts[(forecasts["store_key"] == s) & (forecasts["prod_key"] == p)]
FilterSku(df, s, p) ==
    IF df = <<>> THEN <<>>
    ELSE IF Head(df).store_key = s /\ Head(df).prod_key = p
         THEN <<Head(df)>> \o FilterSku(Tail(df), s, p)
         ELSE FilterSku(Tail(df), s, p)

RECURSIVE FilterStore(_, _)
\* display_df[display_df["Store"] == s]
FilterStore(df, s) ==
    IF df = <<>> THEN <<>>
    ELSE IF Head(df).Store = s THEN <<Head(df)>> \o FilterStore(Tail(df), s)
    ELSE FilterStore(Tail(df), s)

RECURSIVE InsertByDate(_, _)
InsertByDate(r, s) ==
    IF s = <<>> THEN <<r>>
    ELSE IF r.date < Head(s).date THEN <<r>> \o s
    ELSE <<Head(s)>> \o InsertByDate(r, Tail(s))

RECURSIVE SortByDate(_)
\* df.sort_values("date")
SortByDate(df) ==
    IF df = <<>> THEN <<>>
    ELSE InsertByDate(df[Len(df)], SortByDate(SubSeq(df, 1, Len(df) - 1)))

RECURSIVE SortedSeq(_)
\* sorted(...) of a set of keys
SortedSeq(S) ==
    IF S = {} THEN <<>>
    ELSE LET m == CHOOSE x \in S : \A y \in S : x <= y
         IN  <<m>> \o SortedSeq(S \ {m})

Column(df, c) == [i \in 1..Len(df) |-> df[i][c]]

Range(s) == {s[i] : i \in 1..Len(s)}

----------------------------------------------------------------------------
(* Program constants; floats in hundredths *)

\* st.sidebar.slider("Lead Time (days)", min_value=1, max_value=21, value=7)
MIN_LEAD == 1
MAX_LEAD == 21
DEFAULT_LEAD == 7
\* st.sidebar.select_slider(..., value=0.95)
DEFAULT_SERVICE == 95
\* st.sidebar.number_input(..., min_value=0.0, value=0.50) and (..., value=5.00)
MIN_COST == 0
DEFAULT_HOLDING == 50
DEFAULT_STOCKOUT == 500
\* sigma_d of a one-row series: 5.0
FALLBACK_SIGMA == 500
\* the 0.10 of expected_sout
STOCKOUT_SHARE == 10
\* what st.selectbox returns for an empty option list (None)
NoKey == 0

\* the table with the 0.97 entry mistyped as 1.58
z_itemsTypo == << [sl |-> 90, z |-> 128], [sl |-> 95, z |-> 165],
                  [sl |-> 97, z |-> 158], [sl |-> 99, z |-> 233] >>

\* z_map = {0.90: 1.28, 0.95: 1.65, 0.97: 1.88, 0.99: 2.33}, in insertion order
z_items == << [sl |-> 90, z |-> 128], [sl |-> 95, z |-> 165],
              [sl |-> 97, z |-> 188], [sl |-> 99, z |-> 233] >>

z_keys == {z_items[i].sl : i \in 1..Len(z_items)}

z_map == [k \in z_keys |-> (CHOOSE i \in 1..Len(z_items) : z_items[i].sl = k)]

\* z_map.get(service_level, 1.65): an unknown key silently takes the default z
ZLookupDefault(sl) ==
    IF sl \in DOMAIN z_map THEN [ok |-> TRUE, z |-> z_items[z_map[sl]].z]
    ELSE [ok |-> TRUE, z |-> 165]

\* Z = z_map[service_level]: the value under the key; a key the dict does not
\* hold raises KeyError and yields no value
ZLookup(sl) ==
    IF sl \in DOMAIN z_map THEN [ok |-> TRUE, z |-> z_items[z_map[sl]].z]
    ELSE [ok |-> FALSE, z |-> 0]

----------------------------------------------------------------------------
(* The policy formulas, lines 99-106 *)

\* mu_d = sku_df["prediction"].mean()
MuD(sku) == Mean(Column(sku, "prediction"))

\* the fallback taken for len(sku_df) > 2 instead of > 1
SigmaDOffByOne(sku) ==
    IF Len(sku) > 2 THEN Std(Column(sku, "prediction")) ELSE FALLBACK_SIGMA

\* sigma_d kept from the previous run once it was computed
SigmaDStale(sku) ==
    IF "sigma_d" \in assigned THEN sigma_d
    ELSE IF Len(sku) > 1 THEN Std(Column(sku, "prediction")) ELSE FALLBACK_SIGMA

\* sigma_d = sku_df["prediction"].std() if len(sku_df) > 1 else 5.0
SigmaD(sku) ==
    IF Len(sku) > 1 THEN Std(Column(sku, "prediction")) ELSE FALLBACK_SIGMA

\* safety_stock = Z * sigma_d * np.sqrt(lead_time_days)
SafetyStock(z, sigma, lead) == FMul(FMul(z, sigma), FSqrt(lead * SCALE))

\* the safety stock subtracted instead of added
ReorderPointSignSlip(mu, lead, ss) == mu * lead - ss

\* reorder_point = mu_d * lead_time_days + safety_stock
ReorderPoint(mu, lead, ss) == mu * lead + ss

\* expected_hold = safety_stock * holding_cost
ExpectedHold(ss, hc) == FMul(ss, hc)

\* expected_sout = sigma_d * 0.10 * stockout_cost
ExpectedSout(sigma, sc) == FMul(FMul(sigma, STOCKOUT_SHARE), sc)

\* total_cost = expected_hold + expected_sout
TotalCost(hold, sout) == hold + sout

\* the loop over z_map.items() that fills rows
ComparisonRows(mu, sigma, lead) ==
    [i \in 1..Len(z_items) |->
        LET z   == z_items[i].z
            ss  == FMul(FMul(z, sigma), FSqrt(lead * SCALE))
            rop == mu * lead + ss
        IN  [ServiceLevel |-> z_items[i].sl,
             SafetyStock  |-> Round(ss),
             ReorderPoint |-> Round(rop)]]

----------------------------------------------------------------------------
(* The full policy table, lines 196-207: one column assignment at a time *)

\* the first row's sigma_d used for every row
ColSafetyStockBroadcast(live, z, lead) ==
    [i \in 1..Len(live) |-> FMul(FMul(z, live[1].sigma_d), FSqrt(lead * SCALE))]

\* policy_live["safety_stock"] = Z * policy_live["sigma_d"] * np.sqrt(lead_time_days)
ColSafetyStock(live, z, lead) ==
    [i \in 1..Len(live) |-> FMul(FMul(z, live[i].sigma_d), FSqrt(lead * SCALE))]

\* the safety stock column subtracted instead of added
ColReorderPointSignSlip(live, lead, ss) ==
    [i \in 1..Len(live) |-> live[i].mu_d * lead - ss[i]]

\* policy_live["reorder_point"] = policy_live["mu_d"] * lead_time_days + policy_live["safety_stock"]
ColReorderPoint(live, lead, ss) ==
    [i \in 1..Len(live) |-> live[i].mu_d * lead + ss[i]]

\* policy_live["holding_cost"] = policy_live["safety_stock"] * holding_cost
ColHoldingCost(ss, hc) == [i \in 1..Len(ss) |-> FMul(ss[i], hc)]

\* policy_live["stockout_cost"] = policy_live["sigma_d"] * 0.10 * stockout_cost
ColStockoutCost(live, sc) ==
    [i \in 1..Len(live) |-> FMul(FMul(live[i].sigma_d, STOCKOUT_SHARE), sc)]

\* policy_live["total_cost"] = policy_live["holding_cost"] + policy_live["stockout_cost"]
ColTotalCost(hold, sout) == [i \in 1..Len(hold) |-> hold[i] + sout[i]]

\* policy_live = policy.copy() followed by the five column assignments
PolicyLive(pol, z, lead, hc, sc) ==
    LET ss   == ColSafetyStock(pol, z, lead)
        rop  == ColReorderPoint(pol, lead, ss)
        hold == ColHoldingCost(ss, hc)
        sout == ColStockoutCost(pol, sc)
        tot  == ColTotalCost(hold, sout)
    IN  [i \in 1..Len(pol) |->
            [store_key     |-> pol[i].store_key,
             prod_key      |-> pol[i].prod_key,
             mu_d          |-> pol[i].mu_d,
             sigma_d       |-> pol[i].sigma_d,
             safety_stock  |-> ss[i],
             reorder_point |-> rop[i],
             holding_cost  |-> hold[i],
             stockout_cost |-> sout[i],
             total_cost    |-> tot[i]]]

\* policy_live = policy without .copy(): both names are one frame
PolicyAliased(pol, live) == live

\* the frame the name policy refers to once policy_live has its columns:
\* the columns were added to a copy
PolicyAfterPass(pol, live) == pol

\* the frame the name forecasts refers to once sku_df is built:
\* boolean indexing and sort_values return new frames
ForecastsAfterFilter(f, sku) == f

\* display_df: eight columns of policy_live, renamed
DisplayColumns(live) ==
    [i \in 1..Len(live) |->
        [Store          |-> live[i].store_key,
         Product        |-> live[i].prod_key,
         AvgDailyDemand |-> live[i].mu_d,
         SafetyStock    |-> live[i].safety_stock,
         ReorderPoint   |-> live[i].reorder_point,
         HoldingCost    |-> live[i].holding_cost,
         StockoutCost   |-> live[i].stockout_cost,
         TotalCost      |-> live[i].total_cost]]

\* if st.checkbox("Show selected store only", value=True): keep that store's rows
DisplayDf(live, only, store) ==
    IF only THEN FilterStore(DisplayColumns(live), store) ELSE DisplayColumns(live)

----------------------------------------------------------------------------
(* Loading, lines 19-32 *)

NoCache == [filled |-> FALSE, forecasts |-> <<>>, policy |-> <<>>]

\* load_data() behind st.cache_data: the cached pair when there is one, else both
\* files are read; pd.read_csv raises on a missing or malformed file
load_data ==
    IF cache.filled
    THEN [ok |-> TRUE, forecasts |-> cache.forecasts, policy |-> cache.policy]
    ELSE IF disk.forecasts.ok /\ disk.policy.ok
    THEN [ok |-> TRUE, forecasts |-> disk.forecasts.rows, policy |-> disk.policy.rows]
    ELSE [ok |-> FALSE, forecasts |-> <<>>, policy |-> <<>>]

\* st.cache_data stores the value of a call that returned, nothing of one that raised
CacheAfter(ld) ==
    IF ld.ok THEN [filled |-> TRUE, forecasts |-> ld.forecasts, policy |-> ld.policy]
    ELSE cache

\* the halt left out: the script goes on after a failed load
HaltedNever(loaded) == FALSE

\* if not DATA_LOADED: st.error(...); st.info(...); st.stop()
Halted(loaded) == ~loaded

----------------------------------------------------------------------------
(* Widgets, lines 53-79 and 206 *)

EmptyWidgets == [l \in {} |-> 0]

\* a widget returns its stored value, or its default when it was not rendered
\* by the previous run
Widget(w, label, default) == IF label \in DOMAIN w THEN w[label] ELSE default

\* st.selectbox: the stored option, else the first option, None without options
Selectbox(w, label, options) ==
    IF options = <<>> THEN NoKey
    ELSE IF label \in DOMAIN w /\ w[label] \in Range(options) THEN w[label]
    ELSE options[1]

----------------------------------------------------------------------------
(* One run of the script, as the values its names hold when it ends *)

Blank ==
    [DATA_LOADED |-> FALSE, forecasts |-> <<>>, policy |-> <<>>,
     selected_store |-> NoKey, selected_product |-> NoKey,
     service_level |-> 0, lead_time_days |-> 0,
     holding_cost |-> 0, stockout_cost |-> 0,
     sku_df |-> <<>>, Z |-> 0, mu_d |-> 0, sigma_d |-> 0,
     safety_stock |-> 0, reorder_point |-> 0,
     expected_hold |-> 0, expected_sout |-> 0, total_cost |-> 0,
     rows |-> <<>>, policy_live |-> <<>>, display_df |-> <<>>,
     widgets |-> EmptyWidgets, assigned |-> {}, shown |-> {}]

\* lines 30-46: the except branch and the halt
LoadFailed ==
    [Blank EXCEPT !.assigned = {"DATA_LOADED", "load_error"},
                  !.shown = {"title", "error", "info"}]

\* st.error in place of st.warning
EmptyShownAsError == {"error"}

\* what the empty-selection branch renders, lines 89-91
EmptyShown == {"warning"}

\* lines 26-29 and 51-79: the loaded tables and the sidebar controls
AfterSidebar(ld, w) ==
    LET stores   == SortedSeq(Range(Column(ld.forecasts, "store_key")))
        products == SortedSeq(Range(Column(ld.forecasts, "prod_key")))
        st == Selectbox(w, "store", stores)
        pr == Selectbox(w, "product", products)
        sl == Widget(w, "service", DEFAULT_SERVICE)
        lt == Widget(w, "lead", DEFAULT_LEAD)
        hc == Widget(w, "holding", DEFAULT_HOLDING)
        sc == Widget(w, "stockout", DEFAULT_STOCKOUT)
    IN  [Blank EXCEPT
            !.DATA_LOADED = TRUE,
            !.forecasts = ld.forecasts,
            !.policy = ld.policy,
            !.selected_store = st,
            !.selected_product = pr,
            !.service_level = sl,
            !.lead_time_days = lt,
            !.holding_cost = hc,
            !.stockout_cost = sc,
            !.widgets = ("store" :> st) @@ ("product" :> pr) @@ ("service" :> sl)
                        @@ ("lead" :> lt) @@ ("holding" :> hc) @@ ("stockout" :> sc),
            !.assigned = {"DATA_LOADED", "load_error", "forecasts", "policy",
                          "selected_store", "selected_product", "service_level",
                          "lead_time_days", "holding_cost", "stockout_cost"},
            !.shown = {"title", "sidebar"}]

\* lines 84-87: sku_df
AfterFilter(r) ==
    LET sku == SortByDate(FilterSku(r.forecasts, r.selected_store, r.selected_product))
    IN  [r EXCEPT !.sku_df = sku,
                  !.forecasts = ForecastsAfterFilter(r.forecasts, sku),
                  !.assigned = @ \cup {"sku_df"}]

\* sku_df.empty
IsEmptyDf(df) == Len(df) = 0

\* lines 89-91: st.warning(...); st.stop()
EmptyWarning(r) == [r EXCEPT !.shown = @ \cup EmptyShown]

\* line 97 with a key z_map does not hold: the KeyError ends the run and
\* Streamlit renders the exception
KeyErrorRaised(r) ==
    [r EXCEPT !.assigned = @ \cup {"z_map"}, !.shown = @ \cup {"exception"}]

\* lines 96-188: the per-SKU policy, the metrics, the charts, the comparison table
AfterPolicy(r) ==
    LET z    == ZLookup(r.service_level).z
        mu   == MuD(r.sku_df)
        sg   == SigmaD(r.sku_df)
        ss   == SafetyStock(z, sg, r.lead_time_days)
        rop  == ReorderPoint(mu, r.lead_time_days, ss)
        hold == ExpectedHold(ss, r.holding_cost)
        sout == ExpectedSout(sg, r.stockout_cost)
    IN  [r EXCEPT
            !.Z = z, !.mu_d = mu, !.sigma_d = sg,
            !.safety_stock = ss, !.reorder_point = rop,
            !.expected_hold = hold, !.expected_sout = sout,
            !.total_cost = TotalCost(hold, sout),
            !.rows = ComparisonRows(mu, sg, r.lead_time_days),
            !.assigned = @ \cup {"z_map", "Z", "mu_d", "sigma_d", "safety_stock",
                                 "reorder_point", "expected_hold", "expected_sout",
                                 "total_cost", "rows"},
            !.shown = @ \cup {"metrics", "chart", "cost_chart", "comparison"}]

\* lines 196-227: the full policy table, its store filter and the download
AfterTable(r, w) ==
    LET live == PolicyLive(r.policy, r.Z, r.lead_time_days, r.holding_cost,
                           r.stockout_cost)
        only == Widget(w, "store_only", TRUE)
    IN  [r EXCEPT
            !.policy_live = live,
            !.policy = PolicyAfterPass(r.policy, live),
            !.display_df = DisplayDf(live, only, r.selected_store),
            !.widgets = @ @@ ("store_only" :> only),
            !.assigned = @ \cup {"policy_live", "display_df"},
            !.shown = @ \cup {"policy_table", "download"}]

\* the script from top to bottom, started with the widget store w
Script(w) ==
    LET ld == load_data
    IN  IF Halted(ld.ok) THEN LoadFailed
        ELSE LET a == AfterFilter(AfterSidebar(ld, w))
             IN  IF IsEmptyDf(a.sku_df) THEN EmptyWarning(a)
                 ELSE IF ~ZLookup(a.service_level).ok THEN KeyErrorRaised(a)
                 ELSE AfterTable(AfterPolicy(a), w)

Run(w) ==
    \E r \in {Script(w)} :
        /\ started' = TRUE
        /\ disk' = disk
        /\ cache' = CacheAfter(load_data)
        /\ DATA_LOADED' = r.DATA_LOADED
        /\ forecasts' = r.forecasts
        /\ policy' = r.policy
        /\ selected_store' = r.selected_store
        /\ selected_product' = r.selected_product
        /\ service_level' = r.service_level
        /\ lead_time_days' = r.lead_time_days
        /\ holding_cost' = r.holding_cost
        /\ stockout_cost' = r.stockout_cost
        /\ sku_df' = r.sku_df
        /\ Z' = r.Z
        /\ mu_d' = r.mu_d
        /\ sigma_d' = r.sigma_d
        /\ safety_stock' = r.safety_stock
        /\ reorder_point' = r.reorder_point
        /\ expected_hold' = r.expected_hold
        /\ expected_sout' = r.expected_sout
        /\ total_cost' = r.total_cost
        /\ rows' = r.rows
        /\ policy_live' = r.policy_live
        /\ display_df' = r.display_df
        /\ widgets' = r.widgets
        /\ assigned' = r.assigned
        /\ shown' = r.shown

----------------------------------------------------------------------------
(* The explored inputs *)

\* sku_forecasts.csv as written by the forecasting pipeline, not in date order;
\* one record per (store, product, date)
ForecastFile ==
    << [store_key |-> 1, prod_key |-> 1, date |-> 2, prediction |-> 1000],
       [store_key |-> 1, prod_key |-> 1, date |-> 1, prediction |-> 3000],
       [store_key |-> 2, prod_key |-> 1, date |-> 1, prediction |-> 2000],
       [store_key |-> 2, prod_key |-> 2, date |-> 1, prediction |-> 1000] >>

\* inventory_policy.csv; one row per (store, product); mu_d is not checked by
\* anything and may be negative
PolicyFile ==
    << [store_key |-> 1, prod_key |-> 1, mu_d |-> 2000, sigma_d |-> 1000],
       [store_key |-> 2, prod_key |-> 2, mu_d |-> -1000, sigma_d |-> 0],
       [store_key |-> 1, prod_key |-> 2, mu_d |-> 0, sigma_d |-> 250] >>

\* the files explored: at most n rows of file, kept in file order
SubTables(file, n) ==
    { LET idx == SortedSeq(S) IN [k \in 1..Len(idx) |-> file[idx[k]]] :
        S \in {T \in SUBSET (1..Len(file)) : Cardinality(T) <= n} }

ForecastTables == SubTables(ForecastFile, MaxRows)

PolicyTables == SubTables(PolicyFile, MaxPolicyRows)

Readable(t) == [ok |-> TRUE, rows |-> t]

Unreadable == [ok |-> FALSE, rows |-> <<>>]

Disks ==
    {[forecasts |-> Readable(f), policy |-> Readable(p)] :
        f \in ForecastTables, p \in PolicyTables}
    \cup {[forecasts |-> Unreadable, policy |-> Readable(PolicyFile)],
          [forecasts |-> Readable(ForecastFile), policy |-> Unreadable],
          [forecasts |-> Unreadable, policy |-> Unreadable]}

\* the positions of the lead-time slider that Spec explores
LeadTimes == {l \in MIN_LEAD..MAX_LEAD : l <= LeadLow \/ l = DEFAULT_LEAD \/ l = MAX_LEAD}

\* every position of the lead-time slider
AllLeadTimes == MIN_LEAD..MAX_LEAD

\* the options of the service-level select_slider
ServiceLevels == {90, 95, 97, 99}

\* service levels a caller other than the select_slider may pass
ProbeLevels == ServiceLevels \cup {85, 96, 100}

\* values typed into the two number inputs
HoldingCosts == {MIN_COST, DEFAULT_HOLDING}

StockoutCosts == {MIN_COST, DEFAULT_STOCKOUT}

----------------------------------------------------------------------------
(* The session *)

InitOn(D) ==
    /\ disk \in D
    /\ cache = NoCache
    /\ started = FALSE
    /\ DATA_LOADED = Blank.DATA_LOADED
    /\ forecasts = Blank.forecasts
    /\ policy = Blank.policy
    /\ selected_store = Blank.selected_store
    /\ selected_product = Blank.selected_product
    /\ service_level = Blank.service_level
    /\ lead_time_days = Blank.lead_time_days
    /\ holding_cost = Blank.holding_cost
    /\ stockout_cost = Blank.stockout_cost
    /\ sku_df = Blank.sku_df
    /\ Z = Blank.Z
    /\ mu_d = Blank.mu_d
    /\ sigma_d = Blank.sigma_d
    /\ safety_stock = Blank.safety_stock
    /\ reorder_point = Blank.reorder_point
    /\ expected_hold = Blank.expected_hold
    /\ expected_sout = Blank.expected_sout
    /\ total_cost = Blank.total_cost
    /\ rows = Blank.rows
    /\ policy_live = Blank.policy_live
    /\ display_df = Blank.display_df
    /\ widgets = Blank.widgets
    /\ assigned = Blank.assigned
    /\ shown = Blank.shown

Init == InitOn(Disks)

\* the page is opened: the first run, every widget at its default
Open == ~started /\ Run(widgets)

\* a rerun without a change of any widget
Rerun == started /\ Run(widgets)

\* the user changes the widget label, which the last run rendered, to v
Change(label, v) ==
    /\ started
    /\ label \in DOMAIN widgets
    /\ widgets[label] # v
    /\ Run([widgets EXCEPT ![label] = v])

SelectStore ==
    \E s \in Range(Column(forecasts, "store_key")) : Change("store", s)

SelectProduct ==
    \E p \in Range(Column(forecasts, "prod_key")) : Change("product", p)

SetServiceLevel(Levels) == \E sl \in Levels : Change("service", sl)

SetLeadTime(Leads) == \E l \in Leads : Change("lead", l)

SetHoldingCost == \E hc \in HoldingCosts : Change("holding", hc)

SetStockoutCost == \E sc \in StockoutCosts : Change("stockout", sc)

ToggleStoreOnly == \E b \in BOOLEAN : Change("store_only", b)

Next ==
    \/ Open
    \/ Rerun
    \/ SelectStore
    \/ SelectProduct
    \/ SetServiceLevel(ServiceLevels)
    \/ SetLeadTime(LeadTimes)
    \/ SetHoldingCost
    \/ SetStockoutCost
    \/ ToggleStoreOnly

Spec == Init /\ [][Next]_vars

----------------------------------------------------------------------------
(* The policy calculation driven over its whole parameter range: every lead *)
(* time of the slider, and a service level supplied by a caller that is not *)
(* the select_slider, on one SKU's series as it grows and every explored    *)
(* policy file                                                              *)

\* the forecast series of one SKU, not in date order
CalcSeries ==
    << [store_key |-> 1, prod_key |-> 1, date |-> 2, prediction |-> 1000],
       [store_key |-> 1, prod_key |-> 1, date |-> 1, prediction |-> 1000],
       [store_key |-> 1, prod_key |-> 1, date |-> 3, prediction |-> 3000] >>

\* its first row, its first two rows, all of it
CalcForecastTables == {SubSeq(CalcSeries, 1, n) : n \in 1..Len(CalcSeries)}

CalcDisks ==
    {[forecasts |-> Readable(f), policy |-> Readable(p)] :
        f \in CalcForecastTables, p \in PolicyTables}

InitCalc == InitOn(CalcDisks)

NextCalc ==
    \/ Open
    \/ SetServiceLevel(ProbeLevels)
    \/ SetLeadTime(AllLeadTimes)
    \/ SetHoldingCost
    \/ SetStockoutCost

SpecCalc == InitCalc /\ [][NextCalc]_vars

----------------------------------------------------------------------------
(* Properties *)

\* the last run reached the end of the script
FullRun == "policy_table" \in shown

PerSkuNames ==
    {"Z", "mu_d", "sigma_d", "safety_stock", "reorder_point", "expected_hold",
     "expected_sout", "total_cost", "rows"}

TableNames == {"policy_live", "display_df"}

PerSkuShown == {"metrics", "chart", "cost_chart", "comparison"}

TableShown == {"policy_table", "download"}

\* the rows of the loaded forecast table that match the two selectboxes
Selection == FilterSku(forecasts, selected_store, selected_product)

\* C1: when either csv file cannot be read, every run ends halted on the error:
\* the error is shown and neither the SKU filter, the per-SKU policy, the
\* comparison table nor the full policy table is computed or rendered
C1_LoadFailureHalts ==
    (started /\ ~(disk.forecasts.ok /\ disk.policy.ok)) =>
        /\ ~DATA_LOADED
        /\ "error" \in shown
        /\ shown \cap ({"sidebar", "warning"} \cup PerSkuShown \cup TableShown) = {}
        /\ assigned \cap ({"sku_df"} \cup PerSkuNames \cup TableNames) = {}
        /\ sku_df = <<>> /\ rows = <<>> /\ policy_live = <<>> /\ display_df = <<>>

C1_Witness ==
    started /\ disk.forecasts.ok /\ ~disk.policy.ok /\ "error" \in shown

\* C2: when the selected (store, product) pair has no forecast row, the run
\* shows the warning, no error, and computes and renders none of the per-SKU
\* metrics and nothing after them
C2_EmptySelectionWarns ==
    (started /\ DATA_LOADED /\ Selection = <<>>) =>
        /\ "warning" \in shown
        /\ "error" \notin shown /\ "exception" \notin shown
        /\ shown \cap (PerSkuShown \cup TableShown) = {}
        /\ assigned \cap (PerSkuNames \cup TableNames) = {}

C2_Witness ==
    /\ started /\ DATA_LOADED /\ "warning" \in shown
    /\ selected_store \in Range(Column(forecasts, "store_key"))
    /\ selected_product \in Range(Column(forecasts, "prod_key"))
    /\ Selection = <<>>

\* C3: a service level outside {0.90, 0.95, 0.97, 0.99} ends the run in an
\* error with no Z, safety stock, reorder point or cost computed, per SKU or
\* per row; the four levels give Z = 1.28, 1.65, 1.88, 2.33
C3_ServiceLevelLookup ==
    (started /\ DATA_LOADED /\ Selection # <<>>) =>
        /\ service_level \notin {90, 95, 97, 99} =>
              /\ "exception" \in shown
              /\ shown \cap (PerSkuShown \cup TableShown) = {}
              /\ assigned \cap (PerSkuNames \cup TableNames) = {}
        /\ service_level \in {90, 95, 97, 99} => FullRun /\ "Z" \in assigned
        /\ service_level = 90 => Z = 128
        /\ service_level = 95 => Z = 165
        /\ service_level = 97 => Z = 188
        /\ service_level = 99 => Z = 233

C3_Witness ==
    started /\ service_level = 85 /\ "exception" \in shown /\ ~FullRun

\* C4: a one-row series gives sigma_d = 5.0 in the headline safety stock, the
\* reorder point, the stockout cost and the four comparison rows; a series of
\* two or more rows gives the sample standard deviation of its predictions
C4_SigmaFallback ==
    FullRun =>
        LET preds == Column(Selection, "prediction")
            sqrtL == FSqrt(lead_time_days * SCALE)
            ss5   == FMul(FMul(Z, 500), sqrtL)
        IN  /\ Len(preds) = 1 =>
                /\ sigma_d = 500
                /\ safety_stock = ss5
                /\ reorder_point = preds[1] * lead_time_days + ss5
                /\ expected_sout = FMul(FMul(500, 10), stockout_cost)
                /\ Len(rows) = 4
                /\ \A i \in 1..Len(rows) :
                      LET zi  == z_items[i].z
                          ssi == FMul(FMul(zi, 500), sqrtL)
                      IN  /\ rows[i].SafetyStock = Round(ssi)
                          /\ rows[i].ReorderPoint
                                = Round(preds[1] * lead_time_days + ssi)
            /\ Len(preds) >= 2 => sigma_d = Std(preds)

C4_Witness ==
    /\ FullRun /\ Len(sku_df) = 1 /\ sigma_d = 500
    /\ lead_time_days # DEFAULT_LEAD /\ service_level # DEFAULT_SERVICE

\* C5: every row of the full policy table holds exactly what the single-series
\* formulas give for that row's own mu_d and sigma_d under the same parameters
C5_BatchEqualsScalar ==
    FullRun =>
        /\ Len(policy_live) = Len(policy)
        /\ \A i \in 1..Len(policy) :
              LET ss   == SafetyStock(Z, policy[i].sigma_d, lead_time_days)
                  hold == ExpectedHold(ss, holding_cost)
                  sout == ExpectedSout(policy[i].sigma_d, stockout_cost)
              IN  /\ policy_live[i].safety_stock = ss
                  /\ policy_live[i].reorder_point
                        = ReorderPoint(policy[i].mu_d, lead_time_days, ss)
                  /\ policy_live[i].holding_cost = hold
                  /\ policy_live[i].stockout_cost = sout
                  /\ policy_live[i].total_cost = TotalCost(hold, sout)

C5_Witness ==
    /\ FullRun /\ Len(policy_live) = 2
    /\ policy_live[1].safety_stock # policy_live[2].safety_stock
    /\ policy_live[1].total_cost > 0

NonNegative(r) ==
    /\ r.safety_stock >= 0 /\ r.reorder_point >= 0 /\ r.holding_cost >= 0
    /\ r.stockout_cost >= 0 /\ r.total_cost >= 0

\* C6 as stated: every result, per SKU and per policy row, has all five
\* values >= 0
C6_AllNonNegative ==
    FullRun =>
        /\ safety_stock >= 0 /\ reorder_point >= 0 /\ expected_hold >= 0
        /\ expected_sout >= 0 /\ total_cost >= 0
        /\ \A i \in 1..Len(policy_live) : NonNegative(policy_live[i])

\* C6 amended: safety stock and the three costs are >= 0 in every result, and
\* the reorder point is >= 0 in every result whose mu_d is >= 0
C6_NonNegativeForNonNegativeMean ==
    FullRun =>
        /\ safety_stock >= 0 /\ expected_hold >= 0
        /\ expected_sout >= 0 /\ total_cost >= 0
        /\ mu_d >= 0 => reorder_point >= 0
        /\ \A i \in 1..Len(policy_live) :
              /\ policy_live[i].safety_stock >= 0
              /\ policy_live[i].holding_cost >= 0
              /\ policy_live[i].stockout_cost >= 0
              /\ policy_live[i].total_cost >= 0
              /\ policy[i].mu_d >= 0 => policy_live[i].reorder_point >= 0

C6_Witness ==
    /\ FullRun /\ reorder_point > 0 /\ total_cost > 0
    /\ \E i \in 1..Len(policy_live) :
          policy[i].mu_d >= 0 /\ policy_live[i].reorder_point > 0
    /\ \E i \in 1..Len(policy_live) : policy_live[i].reorder_point < 0

\* a step that moves the lead-time slider up and changes nothing else
LeadTimeRaised ==
    /\ FullRun /\ FullRun'
    /\ lead_time_days' >= lead_time_days
    /\ service_level' = service_level
    /\ selected_store' = selected_store
    /\ selected_product' = selected_product
    /\ holding_cost' = holding_cost
    /\ stockout_cost' = stockout_cost

\* C7 as stated: raising the lead time never lowers the reorder point, of the
\* selected SKU or of any row of the full policy table
C7_ReorderPointMonotone ==
    [][LeadTimeRaised =>
          /\ reorder_point' >= reorder_point
          /\ \A i \in 1..Len(policy_live) :
                policy_live'[i].reorder_point >= policy_live[i].reorder_point]_vars

\* C7 amended: raising the lead time never lowers the reorder point of a
\* result whose mu_d is >= 0
C7_ReorderPointMonotoneForNonNegativeMean ==
    [][LeadTimeRaised =>
          /\ mu_d >= 0 => reorder_point' >= reorder_point
          /\ \A i \in 1..Len(policy_live) :
                policy[i].mu_d >= 0 =>
                    policy_live'[i].reorder_point >= policy_live[i].reorder_point]_vars

C7_Witness ==
    /\ FullRun /\ lead_time_days = MAX_LEAD /\ mu_d >= 0
    /\ reorder_point > mu_d * DEFAULT_LEAD
    /\ \E i \in 1..Len(policy_live) :
          policy[i].mu_d >= 0 /\ policy_live[i].reorder_point > 0

\* a step that moves the service-level slider up and changes nothing else
ServiceLevelRaised ==
    /\ FullRun /\ FullRun'
    /\ service_level' >= service_level
    /\ lead_time_days' = lead_time_days
    /\ selected_store' = selected_store
    /\ selected_product' = selected_product
    /\ holding_cost' = holding_cost
    /\ stockout_cost' = stockout_cost

\* the comparison table has one row per service level, in increasing order of
\* level, with non-decreasing safety stock
ComparisonOrdered ==
    /\ {rows[i].ServiceLevel : i \in 1..Len(rows)} = {90, 95, 97, 99}
    /\ \A i, j \in 1..Len(rows) :
          i < j => /\ rows[i].ServiceLevel < rows[j].ServiceLevel
                   /\ rows[i].SafetyStock <= rows[j].SafetyStock

\* C8: raising the service level never lowers the safety stock, of the selected
\* SKU or of any policy row, and the comparison table lists all four levels
\* with non-decreasing safety stock whatever level is selected
C8_SafetyStockMonotone ==
    [][/\ FullRun' => ComparisonOrdered'
       /\ ServiceLevelRaised =>
             /\ safety_stock' >= safety_stock
             /\ \A i \in 1..Len(policy_live) :
                   policy_live'[i].safety_stock >= policy_live[i].safety_stock]_vars

C8_Witness ==
    /\ FullRun /\ service_level = 99 /\ sigma_d > 0
    /\ rows[1].SafetyStock < rows[4].SafetyStock
    /\ \E i \in 1..Len(policy_live) : policy_live[i].safety_stock > 0

\* C9: whatever interactions came before, what a run leaves is the formula
\* applied to the current control values and the loaded tables
C9_OutputsFromControlsOnly ==
    (started /\ DATA_LOADED) =>
        LET sku   == SortByDate(FilterSku(cache.forecasts, selected_store,
                                          selected_product))
            preds == Column(sku, "prediction")
            sg    == IF Len(sku) > 1 THEN Std(preds) ELSE FALLBACK_SIGMA
            mu    == Mean(preds)
            z     == ZLookup(service_level).z
            ss    == SafetyStock(z, sg, lead_time_days)
            hold  == ExpectedHold(ss, holding_cost)
            sout  == ExpectedSout(sg, stockout_cost)
            live  == PolicyLive(cache.policy, z, lead_time_days, holding_cost,
                                stockout_cost)
        IN  /\ selected_store = widgets["store"]
            /\ selected_product = widgets["product"]
            /\ service_level = widgets["service"]
            /\ lead_time_days = widgets["lead"]
            /\ holding_cost = widgets["holding"]
            /\ stockout_cost = widgets["stockout"]
            /\ sku_df = sku
            /\ sku = <<>> => ~FullRun
            /\ sku # <<>> =>
                  /\ FullRun
                  /\ Z = z /\ mu_d = mu /\ sigma_d = sg
                  /\ safety_stock = ss
                  /\ reorder_point = ReorderPoint(mu, lead_time_days, ss)
                  /\ expected_hold = hold /\ expected_sout = sout
                  /\ total_cost = TotalCost(hold, sout)
                  /\ rows = ComparisonRows(mu, sg, lead_time_days)
                  /\ policy_live = live
                  /\ display_df = DisplayDf(live, widgets["store_only"],
                                            selected_store)

C9_Witness ==
    /\ FullRun /\ selected_store = 2 /\ lead_time_days = MAX_LEAD
    /\ service_level = 90 /\ holding_cost = 0 /\ stockout_cost = 0
    /\ ~widgets["store_only"]

\* C10: once loaded, the forecast and policy tables are the files' rows,
\* columns and values after every run, in the script and in the cache
C10_SourceTablesUnchanged ==
    DATA_LOADED =>
        /\ forecasts = disk.forecasts.rows
        /\ policy = disk.policy.rows
        /\ cache = [filled |-> TRUE, forecasts |-> disk.forecasts.rows,
                    policy |-> disk.policy.rows]

C10_Witness ==
    /\ FullRun /\ Len(policy) = 2 /\ Len(sku_df) < Len(forecasts)
    /\ Len(display_df) < Len(policy_live)
    /\ lead_time_days # DEFAULT_LEAD

====
